---- MODULE Spec2Model ----
(***************************************************************************)
(* FixedPt<WWIDTH, FRACWIDTH, Signed>: the fixed point value type of the   *)
(* FPMath header, its float conversions and its arithmetic operators.     *)
(*                                                                         *)
(* A value is the record [W, F, S, val]: the three template parameters and *)
(* the bit-field member val.  A double is represented exactly by the       *)
(* integer d * 2^DScale (every double that occurs within the bounds is a   *)
(* multiple of 2^-DScale of small magnitude, so no rounding of the double  *)
(* itself is involved).  All integer arithmetic of the operators is done   *)
(* in int after integral promotion of the bit-fields, which is exact for   *)
(* the widths within the bounds.                                           *)
(***************************************************************************)
EXTENDS Integers, FiniteSets, Sequences, TLC

VARIABLES SAT, a, b, res

vars == <<SAT, a, b, res>>

\* Largest WWIDTH + FRACWIDTH of the types the two objects a and b are
\* declared with.
MaxTotal == 3

\* Largest total width TypeForSize_ resolves (N < 65).
MaxBits == 64

\* Binary digits kept after the point in the representation of a double.
DScale == MaxTotal

Max(x, y) == IF x >= y THEN x ELSE y

Abs(x) == IF x < 0 THEN -x ELSE x

\* x >> k on an int: arithmetic shift.
Shr(x, k) == x \div (2^k)

\* x << k on an int (on a negative x every supported compiler multiplies).
Shl(x, k) == x * (2^k)

(***************************************************************************)
(* Storage-size resolution                                                 *)
(***************************************************************************)

\* TypeForSize_<N, Signed>::type as [bits, signed]; bits = 0 when only the
\* undefined primary template matches.
TypeForSize_(N, Signed) ==
    IF N > 0 /\ N < 9 THEN [bits |-> 8, signed |-> Signed]
    ELSE IF N > 8 /\ N < 17 THEN [bits |-> 16, signed |-> Signed]
    ELSE IF N > 16 /\ N < 33 THEN [bits |-> 32, signed |-> Signed]
    ELSE IF N > 32 /\ N < 65 THEN [bits |-> 64, signed |-> Signed]
    ELSE [bits |-> 0, signed |-> Signed]

\* The struct FixedPt<W,F,S> can be instantiated: val_t resolves, and the
\* conversion functions operator int() and operator val_t() are distinct
\* (they are the same function, hence ill-formed, when val_t is int).
Instantiable(W, F, S) ==
    LET t == TypeForSize_(W + F, S)
    IN  /\ t.bits # 0
        /\ ~(t.signed /\ t.bits = 32)

\* sizeof(FixedPt<W,F,S>) in bytes: the single bit-field member val of type
\* val_t; 0 when the struct cannot be instantiated.
SizeOf(W, F, S) ==
    IF Instantiable(W, F, S) THEN TypeForSize_(W + F, S).bits \div 8 ELSE 0

(***************************************************************************)
(* The value type                                                          *)
(***************************************************************************)

wwidth(x) == x.W

fracwidth(x) == x.F

\* max_val(): the largest raw value of the type.
max_val(W, F, S) ==
    IF S THEN Shl(1, W + F - 1) - 1 ELSE Shl(1, W + F) - 1

\* The smallest raw value of the type (two's complement when signed).
min_val(W, F, S) == IF S THEN -(2^(W + F - 1)) ELSE 0

\* The values val_t can hold (val_t is at most 16 bits wide within the bounds).
ValT(W, F, S) ==
    LET t == TypeForSize_(W + F, S)
    IN  IF t.signed THEN -(2^(t.bits - 1)) .. 2^(t.bits - 1) - 1
        ELSE 0 .. 2^(t.bits) - 1

\* A store of the integer v into the bit-field  val_t val : (W+F) : the
\* conversion to val_t and then to the W+F bits of the field reduce v
\* modulo powers of two, the narrower one deciding.
StoreVal(W, F, S, v) ==
    LET m == 2^(W + F)
        u == v % m
    IN  IF S /\ u >= m \div 2 THEN u - m ELSE u

\* FixedPt(const val_t&& v) : val(v)
FixedPtRaw(W, F, S, v) == [W |-> W, F |-> F, S |-> S, val |-> StoreVal(W, F, S, v)]

\* All raw values of FixedPt<W,F,S>.
RawRange(W, F, S) == min_val(W, F, S) .. max_val(W, F, S)

(***************************************************************************)
(* Float conversion.  A double d is the integer d * 2^DScale.              *)
(***************************************************************************)

\* pow(2.0, i) for -DScale <= i.
pow2(i) == 2^(DScale + i)

\* round(num / den) for den > 0: to nearest, halfway cases away from zero.
round(num, den) ==
    IF num >= 0 THEN (2 * num + den) \div (2 * den)
    ELSE -((2 * (-num) + den) \div (2 * den))

\* The loop of to_double(): after k iterations (i = -F + k), v holds the
\* not yet consumed bits and fractional the sum so far.
RECURSIVE to_double_loop(_, _, _)
to_double_loop(v, i, fractional) ==
    IF i = 0 THEN v * pow2(0) + fractional
    ELSE to_double_loop(Shr(v, 1), i + 1,
                        IF v % 2 = 1 THEN fractional + pow2(i) ELSE fractional)

\* to_double() (to_f(), operator float and operator double return the same
\* number: it has at most W+F significant bits).
to_double(x) == to_double_loop(x.val, -(x.F), 0)

\* round(n * pow(2.0, FRACWIDTH)) of float2fixed.
Scaled(n, F) == round(n * 2^F, 2^DScale)

\* float2fixed takes the saturating branch: SAT && n > max_val().
Clamps(n, W, F, S, sat) == sat /\ n > max_val(W, F, S) * pow2(0)

\* static_cast<val_t> of the rounded double is undefined: the value is
\* outside the range of val_t.
CastUndefined(n, W, F, S, sat) ==
    ~Clamps(n, W, F, S, sat) /\ Scaled(n, F) \notin ValT(W, F, S)

\* float2fixed(n) followed by the store into val: the set of raw values the
\* construction can leave in val.  An undefined cast yields some val_t
\* value, whose store leaves any raw value of the type.
float2fixed(n, W, F, S, sat) ==
    IF Clamps(n, W, F, S, sat) THEN {StoreVal(W, F, S, max_val(W, F, S))}
    ELSE IF CastUndefined(n, W, F, S, sat) THEN RawRange(W, F, S)
    ELSE {StoreVal(W, F, S, Scaled(n, F))}

(***************************************************************************)
(* Accessors and conversions to integers and to strings.                   *)
(***************************************************************************)

\* The conversion of the integer v to val_t: modulo 2^bits.
ToValT(x, v) ==
    LET t == TypeForSize_(x.W + x.F, x.S)
        m == 2^(t.bits)
        u == v % m
    IN  IF t.signed /\ u >= m \div 2 THEN u - m ELSE u

\* auto make_mask(int width)
make_mask(width) == Shl(1, width) - 1

\* get_whole(): val_t(val >> FRACWIDTH)
get_whole(x) == ToValT(x, Shr(x.val, x.F))

\* get_frac(): make_mask(FRACWIDTH) & val, the mask being all ones below
\* bit FRACWIDTH.
get_frac(x) == x.val % (make_mask(x.F) + 1)

\* operator int() as it would round to nearest.
operator_int_nearest(x) == Shr(x.val + Shl(1, x.F) \div 2, x.F)

\* operator int(): val >> FRACWIDTH
operator_int(x) == Shr(x.val, x.F)

\* operator val_t(): val_t(val >> FRACWIDTH)
operator_val_t(x) == ToValT(x, Shr(x.val, x.F))

\* to_bitset(): std::bitset<W+F>(val), bit i of the raw value modulo 2^(W+F).
to_bitset(x) ==
    [i \in 0 .. x.W + x.F - 1 |-> ((x.val % 2^(x.W + x.F)) \div 2^i) % 2]

\* std::bitset::to_string(): the most significant bit first.
to_string(bits, len) ==
    [k \in 1 .. len |-> IF bits[len - k] = 1 THEN "1" ELSE "0"]

\* to_bitstring() with the separator inserted at the fraction width.
to_bitstring_at_frac(x) ==
    LET bitstr == to_string(to_bitset(x), x.W + x.F)
    IN  SubSeq(bitstr, 1, x.F) \o <<".">> \o SubSeq(bitstr, x.F + 1, x.W + x.F)

\* to_bitstring(): bitstr.insert(WWIDTH, ".")
to_bitstring(x) ==
    LET bitstr == to_string(to_bitset(x), x.W + x.F)
    IN  SubSeq(bitstr, 1, x.W) \o <<".">> \o SubSeq(bitstr, x.W + 1, x.W + x.F)

(***************************************************************************)
(* Arithmetic.  x and y are values; sat is SAT at the time of the call.    *)
(***************************************************************************)

\* val left as it is, the sign bit included.
ClearSignKept(x) == x.val

\* val & max_val() on a value of the type: the sign bit is cleared.
ClearSign(x) == x.val % (max_val(x.W, x.F, x.S) + 1)

\* x with its val member assigned v.
WithVal(x, v) == [x EXCEPT !.val = StoreVal(x.W, x.F, x.S, v)]

\* int(q * (1 << F)) for the float quotient q = num / den, den # 0: the
\* conversion to int truncates toward zero.  (With 2*(W+F)+F < 24 the
\* rounding of q to a float never reaches the next multiple of 2^-F.)
TruncQuot(num, den, F) ==
    LET n == num * Shl(1, F)
        q == Abs(n) \div Abs(den)
    IN  IF (n < 0) = (den < 0) THEN q ELSE -q

\* add_ that never clamps.
add_wrapping(x, n, sat) == WithVal(x, x.val + n.val)

\* void add_(const FixedPt& n): the new val of x.
add_(x, n, sat) ==
    LET r == x.val + n.val
    IN  IF sat /\ r > max_val(x.W, x.F, x.S)
        THEN WithVal(x, max_val(x.W, x.F, x.S))
        ELSE WithVal(x, x.val + n.val)

\* auto add(const FixedPt& n): returns a FixedPt<WWIDTH, FRACWIDTH>, which
\* is the unsigned type also when x is signed.
add(x, n, sat) ==
    LET r == x.val + n.val
    IN  FixedPtRaw(x.W, x.F, FALSE,
                   IF sat /\ r > max_val(x.W, x.F, x.S)
                   THEN max_val(x.W, x.F, x.S) ELSE r)

\* operator+ for FixedPts of same width (the unsigned and the signed
\* overload have the same body).
PlusSame(x, y, sat) ==
    LET sum == FixedPtRaw(x.W, x.F, x.S, x.val + y.val)
    IN  IF sat /\ (sum.val < x.val \/ sum.val < y.val)
        THEN WithVal(sum, max_val(sum.W, sum.F, sum.S))
        ELSE sum

\* operator- that stops at zero instead of wrapping.
MinusSameFloor(x, y) == FixedPtRaw(x.W, x.F, x.S, Max(x.val - y.val, min_val(x.W, x.F, x.S)))

\* operator- for FixedPts of same width.
MinusSame(x, y) == FixedPtRaw(x.W, x.F, x.S, x.val - y.val)

\* The four locals every mixed-width operator starts with.
larger_frac_val(x, y) == IF fracwidth(x) >= fracwidth(y) THEN x.val ELSE y.val

larger_frac_wid(x, y) ==
    IF fracwidth(x) >= fracwidth(y) THEN fracwidth(x) ELSE fracwidth(y)

smaller_frac_val(x, y) == IF fracwidth(x) < fracwidth(y) THEN x.val ELSE y.val

smaller_frac_wid(x, y) ==
    IF fracwidth(x) < fracwidth(y) THEN fracwidth(x) ELSE fracwidth(y)

shift_by(x, y) == larger_frac_wid(x, y) - smaller_frac_wid(x, y)

\* max_wwid taken from the first operand alone.
max_wwid_first(x, y) == x.W

\* WWIDTH of the return type of a mixed-width operator.
max_wwid(x, y) == Max(x.W, y.W)

\* FRACWIDTH of the return type of a mixed-width operator.
max_fwid(x, y) == Max(x.F, y.F)

\* operator+ for FixedPts of differing widths and both unsigned.
PlusMixed(x, y, sat) ==
    LET sum == FixedPtRaw(max_wwid(x, y), max_fwid(x, y), FALSE,
                          larger_frac_val(x, y)
                            + Shl(smaller_frac_val(x, y), shift_by(x, y)))
    IN  IF sat /\ (sum.val < x.val \/ sum.val < y.val)
        THEN WithVal(sum, max_val(sum.W, sum.F, sum.S))
        ELSE sum

\* operator* for FixedPts of same width and both unsigned.
TimesSameU(x, y, sat) ==
    LET prod  == FixedPtRaw(2 * x.W, 2 * x.F, FALSE, x.val * y.val)
        prod2 == FixedPtRaw(x.W, x.F, FALSE, Shr(prod.val, x.F))
    IN  IF sat /\ Shr(prod.val, x.W + 2 * x.F) > 0
        THEN WithVal(prod2, max_val(prod2.W, prod2.F, prod2.S))
        ELSE prod2

\* operator* for FixedPts of same width and same signedness.
TimesSameS(x, y, sat) ==
    LET SIGNED == x.S
        prod   == FixedPtRaw(2 * x.W, 2 * x.F, SIGNED, x.val * y.val)
        prod2  == FixedPtRaw(x.W, x.F, SIGNED, Shr(prod.val, x.F))
        prod2c == IF SIGNED /\ ((x.val > 0 /\ y.val > 0) \/ (x.val < 0 /\ y.val < 0))
                  THEN WithVal(prod2, ClearSign(prod2))
                  ELSE prod2
        adjustment == IF SIGNED THEN 1 ELSE 0
    IN  IF sat /\ Shr(prod.val, x.W + 2 * x.F - adjustment) > 0
        THEN WithVal(prod2c, max_val(prod2c.W, prod2c.F, prod2c.S))
        ELSE prod2c

\* operator* for FixedPts of differing widths (both unsigned).
TimesMixedU(x, y, sat) ==
    LET prod  == FixedPtRaw(max_wwid(x, y) * 2, max_fwid(x, y) * 2, FALSE,
                            larger_frac_val(x, y)
                              * Shl(smaller_frac_val(x, y), shift_by(x, y)))
        prod2 == FixedPtRaw(max_wwid(x, y), max_fwid(x, y), FALSE,
                            Shr(prod.val, max_fwid(x, y)))
    IN  IF sat /\ Shr(prod.val, max_wwid(x, y) + 2 * max_fwid(x, y)) > 0
        THEN WithVal(prod2, max_val(prod2.W, prod2.F, prod2.S))
        ELSE prod2

\* operator* for FixedPts of differing widths, same signedness.
TimesMixedS(x, y, sat) ==
    LET SIGNED == x.S
        prod   == FixedPtRaw(max_wwid(x, y) * 2, max_fwid(x, y) * 2, SIGNED,
                             larger_frac_val(x, y)
                               * Shl(smaller_frac_val(x, y), shift_by(x, y)))
        prod2  == FixedPtRaw(max_wwid(x, y), max_fwid(x, y), SIGNED,
                             Shr(prod.val, max_fwid(x, y)))
        adjustment == IF SIGNED THEN 1 ELSE 0
        prod2s == IF sat /\ Shr(prod.val, max_wwid(x, y) + 2 * max_fwid(x, y)
                                             - adjustment) > 0
                  THEN WithVal(prod2, max_val(prod2.W, prod2.F, prod2.S))
                  ELSE prod2
    IN  IF SIGNED /\ ((x.val > 0 /\ y.val > 0) \/ (x.val < 0 /\ y.val < 0))
        THEN WithVal(prod2s, ClearSign(prod2s))
        ELSE prod2s

\* operator- for FixedPts of differing widths (both unsigned).
MinusMixed(x, y) ==
    LET diff == IF x.val = smaller_frac_val(x, y)
                THEN Shl(x.val, shift_by(x, y)) - y.val
                ELSE x.val - Shl(y.val, shift_by(x, y))
    IN  FixedPtRaw(max_wwid(x, y), max_fwid(x, y), FALSE, diff)

\* The dividend and the divisor operator/ for differing widths divides.
DivMixedNum(x, y) ==
    IF x.val = smaller_frac_val(x, y) THEN Shl(x.val, shift_by(x, y)) ELSE x.val

DivMixedDen(x, y) ==
    IF x.val = smaller_frac_val(x, y) THEN y.val ELSE Shl(y.val, shift_by(x, y))

\* The quotient of x / y is infinite or NaN (a zero divisor), so that its
\* conversion to int is undefined.
DivUndefined(x, y) ==
    IF x.W = y.W /\ x.F = y.F /\ x.S = y.S THEN y.val = 0 ELSE DivMixedDen(x, y) = 0

\* operator/ for FixedPts of differing widths (both unsigned): the set of
\* results.  An undefined conversion yields some int, whose store leaves
\* any raw value of the result type.
DivMixed(x, y) ==
    IF DivMixedDen(x, y) = 0
    THEN [W : {max_wwid(x, y)}, F : {max_fwid(x, y)}, S : {FALSE},
          val : RawRange(max_wwid(x, y), max_fwid(x, y), FALSE)]
    ELSE {FixedPtRaw(max_wwid(x, y), max_fwid(x, y), FALSE,
                     TruncQuot(DivMixedNum(x, y), DivMixedDen(x, y), max_fwid(x, y)))}

\* operator/ for FixedPts of same width (unsigned and signed overloads have
\* the same body): the set of results.
DivSame(x, y) ==
    IF y.val = 0
    THEN [W : {x.W}, F : {x.F}, S : {x.S}, val : RawRange(x.W, x.F, x.S)]
    ELSE {FixedPtRaw(x.W, x.F, x.S, TruncQuot(x.val, y.val, x.F))}

\* x and y are of the same FixedPt type (the same-width overloads apply).
SameType(x, y) == x.W = y.W /\ x.F = y.F /\ x.S = y.S

\* Overload resolution of x + y; no operator+ exists for signed operands
\* of differing widths.
Plus(x, y, sat) == IF SameType(x, y) THEN PlusSame(x, y, sat) ELSE PlusMixed(x, y, sat)

\* operator- that stops at the smallest raw value when SAT is set.
MinusClamped(x, y) ==
    IF SAT /\ SameType(x, y) /\ x.val - y.val < min_val(x.W, x.F, x.S)
    THEN FixedPtRaw(x.W, x.F, x.S, min_val(x.W, x.F, x.S))
    ELSE IF SameType(x, y) THEN MinusSame(x, y) ELSE MinusMixed(x, y)

\* Overload resolution of x - y.
Minus(x, y) == IF SameType(x, y) THEN MinusSame(x, y) ELSE MinusMixed(x, y)

\* Overload resolution of x * y: the most specialised template wins.
Times(x, y, sat) ==
    IF SameType(x, y)
    THEN IF x.S THEN TimesSameS(x, y, sat) ELSE TimesSameU(x, y, sat)
    ELSE IF x.S THEN TimesMixedS(x, y, sat) ELSE TimesMixedU(x, y, sat)

\* Overload resolution of x / y.
Div(x, y) == IF SameType(x, y) THEN DivSame(x, y) ELSE DivMixed(x, y)

(***************************************************************************)
(* The program.  Two objects: a, the object that is constructed, assigned  *)
(* and added to, and b, the other operand, both declared with a FixedPt    *)
(* type that never changes; the global SAT; and res, the record of the     *)
(* last operation: its name, SAT when it was called, its operands x and y  *)
(* as they were before the call, its float argument n, the value out it    *)
(* constructed or returned, the number d and the string str it returned,   *)
(* the type vt it resolved, and whether its outcome came from undefined    *)
(* behaviour.                                                              *)
(***************************************************************************)

\* The FixedPt types a and b are declared with.
Types ==
    {t \in [W : 1 .. MaxTotal, F : 0 .. MaxTotal - 1, S : BOOLEAN] :
        t.W + t.F <= MaxTotal}

\* Placeholder for an operand or a result an operation does not have.
Nil == [W |-> 0, F |-> 0, S |-> FALSE, val |-> 0]

\* FixedPt() : val(0)
FixedPtDefault(W, F, S) == [W |-> W, F |-> F, S |-> S, val |-> 0]

\* Doubles passed to float2fixed by the conversion specification: every
\* multiple of 2^-DScale from -2.0 to 2.0.
FineInputs == -(2 * 2^DScale) .. 2 * 2^DScale

Rec(op, x, y, n, out, d, ub) ==
    [op |-> op, sat |-> SAT, x |-> x, y |-> y, n |-> n, out |-> out, d |-> d,
     vt |-> TypeForSize_(out.W + out.F, out.S), ub |-> ub, str |-> <<>>]

\* The record of no operation.
NoRec ==
    [op |-> "init", sat |-> TRUE, x |-> Nil, y |-> Nil, n |-> 0, out |-> Nil,
     d |-> 0, vt |-> TypeForSize_(0, FALSE), ub |-> FALSE, str |-> <<>>]

\* The declarations of the test: FixedPt<5,4,true>(7.0) and
\* FixedPt<5,4,true>(2.0), whose raw values are 112 and 32.
TestDecls == {FixedPtRaw(5, 4, TRUE, 112), FixedPtRaw(5, 4, TRUE, 32)}

\* The declarations  T a(v); U b(w);  of two objects of the same signedness
\* from raw values of their types, or of two objects of the test, SAT being
\* true.
Init ==
    /\ SAT = TRUE
    /\ \/ \E ta \in Types, tb \in Types :
             /\ ta.S = tb.S
             /\ \E v \in RawRange(ta.W, ta.F, ta.S) : a = FixedPtRaw(ta.W, ta.F, ta.S, v)
             /\ \E w \in RawRange(tb.W, tb.F, tb.S) : b = FixedPtRaw(tb.W, tb.F, tb.S, w)
       \/ a \in TestDecls /\ b \in TestDecls
    /\ res = NoRec

\* SAT = !SAT
ToggleSAT ==
    /\ SAT' = ~SAT
    /\ UNCHANGED <<a, b, res>>

\* a = T()
CtorDefault ==
    /\ a' = FixedPtDefault(a.W, a.F, a.S)
    /\ res' = Rec("default", Nil, Nil, 0, a', 0, FALSE)
    /\ UNCHANGED <<SAT, b>>

\* a = T(v)   for an integer v: one below zero and one above the largest
\* raw value of the widest type (the declarations construct from the raws
\* in range).
CtorRaw ==
    /\ \E v \in {-1, 2^MaxTotal} : a' = FixedPtRaw(a.W, a.F, a.S, v)
    /\ res' = Rec("raw", Nil, Nil, 0, a', 0, FALSE)
    /\ UNCHANGED <<SAT, b>>

\* The constructors from double and from float and the assignments from
\* double and from float:  a = T(n)  with n drawn from Inputs.
CtorFloatFrom(Inputs) ==
    /\ \E n \in Inputs :
          /\ \E v \in float2fixed(n, a.W, a.F, a.S, SAT) : a' = [a EXCEPT !.val = v]
          /\ res' = Rec("float", Nil, Nil, n, a', 0,
                        CastUndefined(n, a.W, a.F, a.S, SAT))
    /\ UNCHANGED <<SAT, b>>

\* The arithmetic specification passes -1.0, 1.0, the largest raw value of
\* the widest type and the integer above it.
CtorFloat ==
    CtorFloatFrom({k * 2^DScale : k \in {-1, 1, 2^MaxTotal - 1, 2^MaxTotal}})

\* a = b   (copy constructor and assignment of the same type)
Assign ==
    /\ SameType(a, b)
    /\ a' = [a EXCEPT !.val = b.val]
    /\ res' = Rec("assign", b, Nil, 0, a', 0, FALSE)
    /\ UNCHANGED <<SAT, b>>

\* a = r  where r is the value the last operator returned
AssignResult ==
    /\ res.op \in {"+", "-", "*", "/", "add"}
    /\ SameType(a, res.out)
    /\ a' = [a EXCEPT !.val = res.out.val]
    /\ res' = Rec("assign", res.out, Nil, 0, a', 0, FALSE)
    /\ UNCHANGED <<SAT, b>>

\* a.add_(b)
AddInPlace ==
    /\ SameType(a, b)
    /\ a' = add_(a, b, SAT)
    /\ res' = Rec("add_", a, b, 0, a', 0, FALSE)
    /\ UNCHANGED <<SAT, b>>

\* a.add_(a): the argument is a reference to the object itself
AddInPlaceSelf ==
    /\ a' = add_(a, a, SAT)
    /\ res' = Rec("add_", a, a, 0, a', 0, FALSE)
    /\ UNCHANGED <<SAT, b>>

\* r = a.add(b) saturating whatever SAT is.
AddMemberSaturating ==
    /\ SameType(a, b)
    /\ res' = Rec("add", a, b, 0, add(a, b, TRUE), 0, FALSE)
    /\ UNCHANGED <<SAT, a, b>>

\* r = a.add(b)
AddMember ==
    /\ SameType(a, b)
    /\ res' = Rec("add", a, b, 0, add(a, b, SAT), 0, FALSE)
    /\ UNCHANGED <<SAT, a, b>>

\* An operator +, - or / exists for the types of x and y: signed operands
\* of differing widths have only operator*.
HasOperator(x, y) == x.S = y.S /\ (SameType(x, y) \/ ~x.S)

\* a = a + b: the sum is written into the left operand.
OpPlusAssign ==
    /\ HasOperator(a, b)
    /\ SameType(a, b)
    /\ res' = Rec("+", a, b, 0, Plus(a, b, SAT), 0, FALSE)
    /\ a' = res'.out
    /\ UNCHANGED <<SAT, b>>

\* r = a + b
OpPlus ==
    /\ HasOperator(a, b)
    /\ res' = Rec("+", a, b, 0, Plus(a, b, SAT), 0, FALSE)
    /\ UNCHANGED <<SAT, a, b>>

\* r = a - b
OpMinus ==
    /\ HasOperator(a, b)
    /\ res' = Rec("-", a, b, 0, Minus(a, b), 0, FALSE)
    /\ UNCHANGED <<SAT, a, b>>

\* The double-width type the product of x * y is held in can be
\* instantiated.
ProdInstantiable(x, y) ==
    Instantiable(2 * max_wwid(x, y), 2 * max_fwid(x, y), x.S)

\* r = a * b  When the double-width type cannot be instantiated the
\* expression is ill-formed: it has no value.
OpTimes ==
    /\ a.S = b.S
    /\ res' = Rec("*", a, b, 0,
                  IF ProdInstantiable(a, b) THEN Times(a, b, SAT) ELSE Nil,
                  0, FALSE)
    /\ UNCHANGED <<SAT, a, b>>

\* r = a / b
OpDiv ==
    /\ HasOperator(a, b)
    /\ \E q \in Div(a, b) :
          res' = Rec("/", a, b, 0, q, 0, DivUndefined(a, b))
    /\ UNCHANGED <<SAT, a, b>>

\* r = (a - b) + b  and  r = b + (a - b): the difference the last operator-
\* returned is added to b.
OpPlusDiff ==
    /\ res.op = "-"
    /\ HasOperator(res.out, b)
    /\ \E first \in BOOLEAN :
          res' = Rec(IF first THEN "(a-b)+b" ELSE "b+(a-b)", res.out, b, 0,
                     IF first THEN Plus(res.out, b, SAT) ELSE Plus(b, res.out, SAT),
                     0, FALSE)
    /\ UNCHANGED <<SAT, a, b>>

\* n = int(a)
ToInt ==
    /\ res' = Rec("int", a, Nil, 0, Nil, operator_int(a), FALSE)
    /\ UNCHANGED <<SAT, a, b>>

\* n = val_t(a)
ToValType ==
    /\ res' = Rec("val_t", a, Nil, 0, Nil, operator_val_t(a), FALSE)
    /\ UNCHANGED <<SAT, a, b>>

\* n = a.get_whole()
GetWhole ==
    /\ res' = Rec("get_whole", a, Nil, 0, Nil, get_whole(a), FALSE)
    /\ UNCHANGED <<SAT, a, b>>

\* n = a.get_frac()
GetFrac ==
    /\ res' = Rec("get_frac", a, Nil, 0, Nil, get_frac(a), FALSE)
    /\ UNCHANGED <<SAT, a, b>>

\* s = a.to_bitstring()
ToBitstring ==
    /\ res' = [Rec("to_bitstring", a, Nil, 0, Nil, 0, FALSE)
                  EXCEPT !.str = to_bitstring(a)]
    /\ UNCHANGED <<SAT, a, b>>

Next ==
    \/ ToggleSAT
    \/ CtorDefault
    \/ CtorRaw
    \/ CtorFloat
    \/ Assign
    \/ AssignResult
    \/ AddInPlace
    \/ AddInPlaceSelf
    \/ AddMember
    \/ OpPlus
    \/ OpMinus
    \/ OpTimes
    \/ OpDiv
    \/ ToInt
    \/ ToValType
    \/ GetWhole
    \/ GetFrac
    \/ ToBitstring
    \/ OpPlusDiff

Spec == Init /\ [][Next]_vars

(***************************************************************************)
(* The loop of the test: a.add_(a) is repeated, and a.add_(b) may be       *)
(* called in between; no other operation changes a.  The loop body is      *)
(* executed again and again: weak fairness of a.add_(a).                   *)
(***************************************************************************)

\* T a(v); T b(w);  two objects of one type, or FixedPt<5,3> a(8.25) and
\* aa(8.25) of the test: raw value 66.
LoopInit ==
    /\ SAT = TRUE
    /\ \/ \E t \in Types :
             /\ \E v \in RawRange(t.W, t.F, t.S) : a = FixedPtRaw(t.W, t.F, t.S, v)
             /\ \E w \in RawRange(t.W, t.F, t.S) : b = FixedPtRaw(t.W, t.F, t.S, w)
       \/ a = FixedPtRaw(5, 3, FALSE, 66) /\ b = a
    /\ res = NoRec

LoopNext ==
    \/ ToggleSAT
    \/ AddInPlace
    \/ AddInPlaceSelf

SpecLoop == LoopInit /\ [][LoopNext]_vars /\ WF_vars(AddInPlaceSelf)

(***************************************************************************)
(* The conversions on their own: one object a, constructed from every      *)
(* double of FineInputs, converted back by to_double(), and a second       *)
(* object of the same type constructed from the double a returned.         *)
(***************************************************************************)

ConvInit ==
    /\ Init
    /\ b = FixedPtDefault(a.W, a.F, a.S)

CtorFloatFine == CtorFloatFrom(FineInputs)

\* d = a.to_double()
ToDouble ==
    /\ res' = Rec("to_double", a, Nil, 0, Nil, to_double(a), FALSE)
    /\ UNCHANGED <<SAT, a, b>>

\* T y(d)  for the double d the last to_double() returned, T the type of
\* the object it was called on
CtorFromDouble ==
    /\ res.op = "to_double"
    /\ \E v \in float2fixed(res.d, res.x.W, res.x.F, res.x.S, SAT) :
          res' = Rec("from_double", res.x, Nil, res.d, [res.x EXCEPT !.val = v],
                     res.d, CastUndefined(res.d, res.x.W, res.x.F, res.x.S, SAT))
    /\ UNCHANGED <<SAT, a, b>>

ConvNext ==
    \/ ToggleSAT
    \/ CtorFloatFine
    \/ ToDouble
    \/ CtorFromDouble

SpecConv == ConvInit /\ [][ConvNext]_vars

(***************************************************************************)
(* Storage-size resolution on its own: the types FixedPt<W,F,S> of every   *)
(* total width from 0 to MaxBits + 1.                                      *)
(***************************************************************************)

SizeInit ==
    /\ Init
    /\ a = FixedPtDefault(1, 0, FALSE)
    /\ b = a

\* sizeof(FixedPt<W,F,S>): n is the total width W + F, vt the type
\* TypeForSize_ resolves and d the size, 0 when there is no such struct.
ResolveSize ==
    /\ \E N \in 0 .. MaxBits + 1, F \in 0 .. MaxTotal, S \in BOOLEAN :
          /\ F <= N
          /\ res' = Rec("sizeof", Nil, Nil, N, FixedPtDefault(N - F, F, S),
                        SizeOf(N - F, F, S), FALSE)
    /\ UNCHANGED <<SAT, a, b>>

SizeNext == ResolveSize

SpecSize == SizeInit /\ [][SizeNext]_vars

(***************************************************************************)
(* Wide types.  The definitions above compute in TLA+ integers, which is   *)
(* what the code computes as long as every operand and every intermediate  *)
(* result fits in an int: the types Types declares.  The definitions below *)
(* model the unsigned operations on types of up to 63 bits, where the      *)
(* width of the C++ type an expression is evaluated in decides its value.  *)
(* A natural number, and a non-negative double, is the set of the          *)
(* exponents of its binary expansion: 5 is {0, 2} and 2.5 is {-1, 1}.      *)
(***************************************************************************)

\* The largest exponent of a number other than 0.
BMax(s) == CHOOSE i \in s : \A j \in s : j <= i

BXor(s, t) == (s \ t) \cup (t \ s)

\* s + t: bit i of the sum is the sum without carries changed by the carry
\* into i, which a position j below i generates (both bits set) and every
\* position between them propagates (a bit set).
BAdd(s, t) ==
    LET carry(i) == \E j \in s \cap t :
                        j < i /\ \A k \in (j + 1) .. (i - 1) : k \in s \cup t
    IN  {i \in BXor(s, t) : ~carry(i)}
            \cup {i \in {j + 1 : j \in s \cup t} \ BXor(s, t) :
                     i \in s \cap t /\ carry(i)}
            \cup {i \in {j + 1 : j \in s \cup t} \ (s \cup t) : carry(i)}

\* s * t: the sum of the partial products s << i for the i of t, added
\* by halves of t.
RECURSIVE BMul(_, _)
BMul(s, t) ==
    IF t = {} THEN {}
    ELSE LET hi == BMax(t)
             lo == CHOOSE i \in t : \A j \in t : i <= j
             low == {i \in t : i <= (lo + hi) \div 2}
         IN  IF lo = hi THEN {j + hi : j \in s}
             ELSE BAdd(BMul(s, low), BMul(s, t \ low))

\* s << k and s >> k
BShl(s, k) == {i + k : i \in s}

BShr(s, k) == {i - k : i \in {j \in s : j >= k}}

\* s < t
BLess(s, t) == s # t /\ BMax(BXor(s, t)) \in t

\* s modulo 2^w
Trunc(s, w) == {i \in s : i < w}

\* int, the type integral promotion yields (int32_t is int).
CInt == TypeForSize_(32, TRUE)

\* val_t of the unsigned type FixedPt<W,F>.
ValType(x) == TypeForSize_(x.W + x.F, FALSE)

\* Integral promotion of a value of type t.
Promote(t) == IF t.bits < CInt.bits THEN CInt ELSE t

\* The type of x.val in an arithmetic expression: a bit-field all of whose
\* values int represents is promoted to int.
FieldType(x) == IF x.W + x.F < CInt.bits THEN CInt ELSE ValType(x)

\* The usual arithmetic conversions of two promoted types.
Common(t, u) ==
    IF t.bits > u.bits THEN t
    ELSE IF u.bits > t.bits THEN u
    ELSE IF t.signed THEN u ELSE t

\* The type auto deduces for  c ? x.val : y.val : val_t when both
\* bit-fields are declared with it, else the common type of the promoted
\* declared types.
CondType(x, y) ==
    IF ValType(x) = ValType(y) THEN ValType(x)
    ELSE Common(Promote(ValType(x)), Promote(ValType(y)))

\* The result s of an operation evaluated in type t: reduced modulo
\* 2^bits (the overflow of an int is undefined; the compilers wrap it).
InType(s, t) == Trunc(s, t.bits)

\* The conversion of the value s of type t to a 64-bit type: a negative
\* int is sign-extended.
Widen(s, t) ==
    IF t.signed /\ (t.bits - 1) \in s THEN s \cup (t.bits .. MaxBits - 1) ELSE s

\* FixedPt<W,F>(v) for the value v of type t: converted to val_t and stored
\* in the W+F bits of val.
FixedPtRawW(W, F, v, t) ==
    [W |-> W, F |-> F, S |-> FALSE, val |-> Trunc(Widen(v, t), W + F)]

\* max_val() of an unsigned type.
max_valW(x) == 0 .. x.W + x.F - 1

\* max_val() is a constant expression: val_t(1) << (W+F) is none when
\* val_t has W+F bits, and a function that calls max_val() is ill-formed.
HasMaxVal(W, F) ==
    LET t == TypeForSize_(W + F, FALSE) IN t.bits # 0 /\ t.bits # W + F

\* The conversion of a number to a floating type of p significant bits:
\* rounded to nearest, halfway cases to even.
RoundTo(s, p) ==
    IF s = {} THEN {}
    ELSE LET cut  == BMax(s) - (p - 1)
             kept == {i \in s : i >= cut}
             up   == /\ (cut - 1) \in s
                     /\ (cut \in s \/ \E i \in s : i < cut - 1)
         IN  IF up THEN BAdd(kept, {cut}) ELSE kept

\* The conversion to double: 53 significant bits.
RoundD(s) == RoundTo(s, 53)

\* The conversion to float: 24 significant bits.
RoundF(s) == RoundTo(s, 24)

\* The loop of to_double(): st holds the locals v, i and fractional before
\* an iteration.
RECURSIVE to_double_loopW(_)
to_double_loopW(st) ==
    IF st.i = 0 THEN RoundD(BAdd(RoundD(st.v), st.fractional))
    ELSE to_double_loopW(
             [v |-> BShr(st.v, 1), i |-> st.i + 1,
              fractional |-> IF 0 \in st.v
                             THEN RoundD(BAdd(st.fractional, {st.i}))
                             ELSE st.fractional])

\* to_double()
to_doubleW(x) ==
    to_double_loopW([v |-> x.val, i |-> -(x.F), fractional |-> {}])

\* round(n * pow(2.0, FRACWIDTH)): halfway cases away from zero.
ScaledW(n, F) ==
    LET m == BShl(n, F)
        whole == {i \in m : i >= 0}
    IN  IF -1 \in m THEN RoundD(BAdd(whole, {0})) ELSE whole

\* SAT && n > max_val()
ClampsW(n, x, sat) == sat /\ BLess(RoundD(max_valW(x)), n)

\* to_f() and operator float()
to_fW(x) == RoundF(to_doubleW(x))

\* SAT && n > max_val() in float2fixed<float>: max_val() is converted to
\* float.
ClampsFW(n, x, sat) == sat /\ BLess(RoundF(max_valW(x)), n)

\* static_cast<val_t> of the rounded double is undefined.
CastUndefinedW(n, x, sat) ==
    ~ClampsW(n, x, sat) /\ \E i \in ScaledW(n, x.F) : i >= ValType(x).bits

\* float2fixed(n) followed by the store into val, the cast being defined.
float2fixedW(n, x, sat) ==
    IF ClampsW(n, x, sat) THEN max_valW(x)
    ELSE Trunc(ScaledW(n, x.F), x.W + x.F)

\* operator+ for FixedPts of same width and both unsigned.
PlusSameW(x, y, sat) ==
    LET sum == FixedPtRawW(x.W, x.F,
                           InType(BAdd(x.val, y.val), FieldType(x)), FieldType(x))
    IN  IF sat /\ (BLess(sum.val, x.val) \/ BLess(sum.val, y.val))
        THEN [sum EXCEPT !.val = max_valW(sum)]
        ELSE sum

\* The aligned operands of a mixed-width operator, in the type t the
\* locals larger_frac_val and smaller_frac_val have: the second is
\* smaller_frac_val << shift_by.
AlignedW(x, y) ==
    LET t == Promote(CondType(x, y))
    IN  <<larger_frac_val(x, y),
          InType(BShl(smaller_frac_val(x, y), shift_by(x, y)), t)>>

\* operator+ for FixedPts of differing widths and both unsigned.
PlusMixedW(x, y, sat) ==
    LET t   == Promote(CondType(x, y))
        al  == AlignedW(x, y)
        sum == FixedPtRawW(max_wwid(x, y), max_fwid(x, y),
                           InType(BAdd(al[1], al[2]), t), t)
    IN  IF sat /\ (BLess(sum.val, x.val) \/ BLess(sum.val, y.val))
        THEN [sum EXCEPT !.val = max_valW(sum)]
        ELSE sum

\* The exact result s of an operation evaluated in type t is not a value of
\* t and t is signed: the behaviour is undefined.
IntOverflow(s, t) == t.signed /\ \E i \in s : i >= t.bits - 1

\* The results of a multiplication whose product p is evaluated in type t:
\* prod is the double-width object, W and F the widths of the result.  When
\* the product overflows an int the compilers either wrap it (r) or,
\* taking it not to overflow, drop the saturation test and the reduction
\* of the shifted product to the W+F bits of val.
TimesResultsW(p, t, prod, W, F, sat) ==
    LET prod2 == FixedPtRawW(W, F, BShr(prod.val, F), FieldType(prod))
        r     == IF sat /\ BShr(prod.val, W + 2 * F) # {}
                 THEN [prod2 EXCEPT !.val = max_valW(prod2)]
                 ELSE prod2
    IN  IF IntOverflow(p, t)
        THEN {r, [prod2 EXCEPT !.val = BShr(prod.val, F)]}
        ELSE {r}

\* operator* for FixedPts of same width and both unsigned: the set of
\* results.
TimesSameUW(x, y, sat) ==
    LET t    == FieldType(x)
        p    == BMul(x.val, y.val)
        prod == FixedPtRawW(2 * x.W, 2 * x.F, InType(p, t), t)
    IN  TimesResultsW(p, t, prod, x.W, x.F, sat)

\* operator* for FixedPts of differing widths (both unsigned): the set of
\* results.
TimesMixedUW(x, y, sat) ==
    LET t    == Promote(CondType(x, y))
        al   == AlignedW(x, y)
        p    == BMul(al[1], al[2])
        prod == FixedPtRawW(max_wwid(x, y) * 2, max_fwid(x, y) * 2, InType(p, t), t)
    IN  TimesResultsW(p, t, prod, max_wwid(x, y), max_fwid(x, y), sat)

\* Overload resolution of x + y and of x * y.
PlusW(x, y, sat) ==
    IF SameType(x, y) THEN PlusSameW(x, y, sat) ELSE PlusMixedW(x, y, sat)

TimesW(x, y, sat) ==
    IF SameType(x, y) THEN TimesSameUW(x, y, sat) ELSE TimesMixedUW(x, y, sat)

(***************************************************************************)
(* The program on wide types: a and b are declared with unsigned types of  *)
(* up to 64 bits; a is constructed from doubles, a and b are added and     *)
(* multiplied, and a is converted to double and back.                      *)
(***************************************************************************)

\* The raw values the declarations construct from: 0, 1, the raw of 1.0,
\* the largest power of two and the largest raw value of the type.
WideRaws(t) ==
    {{}, {0}, {t.F}, {t.W + t.F - 1}, 0 .. t.W + t.F - 1}

\* The doubles a is constructed from: 0.5, 1.0, 2.0, 2.5, 8.25, 256.0,
\* 524288.0 and 1073741825.0 (which no float represents).
WideDoubles == {{-1}, {0}, {1}, {1, -1}, {3, -2}, {8}, {19}, {30, 0}}

NilW == [W |-> 0, F |-> 0, S |-> FALSE, val |-> {}]

NoRecW == [NoRec EXCEPT !.x = NilW, !.y = NilW, !.out = NilW, !.n = {}, !.d = {}]

\* T a(v); U b(w);  T and U are FixedPt<5,3> and FixedPt<4,4> of the test
\* and types whose val_t is uint32_t and uint64_t.
WideInit ==
    /\ SAT = TRUE
    /\ \E ta, tb \in {[W |-> 5, F |-> 3], [W |-> 4, F |-> 4],
                      [W |-> 12, F |-> 8], [W |-> 20, F |-> 2],
                      [W |-> 2, F |-> 20], [W |-> 54, F |-> 0]} :
          /\ \E v \in WideRaws(ta) : a = FixedPtRawW(ta.W, ta.F, v, ValType(ta))
          /\ \E w \in WideRaws(tb) : b = FixedPtRawW(tb.W, tb.F, w, ValType(tb))
    /\ res = NoRecW

\* a = T(n)  for a double n whose conversion to val_t is defined
CtorFloatW ==
    /\ HasMaxVal(a.W, a.F)
    /\ \E n \in WideDoubles :
          /\ ~CastUndefinedW(n, a, SAT)
          /\ a' = [a EXCEPT !.val = float2fixedW(n, a, SAT)]
          /\ res' = Rec("float", NilW, NilW, n, a', {}, FALSE)
    /\ UNCHANGED <<SAT, b>>

\* a = T(n)  for a float n whose conversion to val_t is defined
CtorFromFloatW ==
    /\ HasMaxVal(a.W, a.F)
    /\ \E n \in {m \in WideDoubles : RoundF(m) = m} :
          /\ ~ClampsFW(n, a, SAT) =>
                \A i \in ScaledW(n, a.F) : i < ValType(a).bits
          /\ a' = [a EXCEPT !.val = IF ClampsFW(n, a, SAT) THEN max_valW(a)
                                    ELSE Trunc(ScaledW(n, a.F), a.W + a.F)]
          /\ res' = Rec("float", NilW, NilW, n, a', {}, FALSE)
    /\ UNCHANGED <<SAT, b>>

\* f = a.to_f(), float(a) or a.to_double()  for the object a just
\* constructed from the number n; the record keeps n and the SAT of the
\* construction.
ReadBackW ==
    /\ res.op = "float"
    /\ \E conv \in {"T(n).to_f", "float(T(n))", "T(n).to_double"} :
          res' = [Rec(conv, a, NilW, res.n, NilW,
                      IF conv = "T(n).to_double" THEN to_doubleW(a) ELSE to_fW(a),
                      FALSE) EXCEPT !.sat = res.sat]
    /\ UNCHANGED <<SAT, a, b>>

\* r = a + b
OpPlusW ==
    /\ HasMaxVal(max_wwid(a, b), max_fwid(a, b))
    /\ res' = Rec("+", a, b, {}, PlusW(a, b, SAT), {}, FALSE)
    /\ UNCHANGED <<SAT, a, b>>

\* The product p of x * y as the code evaluates it overflows an int.
TimesUndefined(x, y) ==
    IF SameType(x, y) THEN IntOverflow(BMul(x.val, y.val), FieldType(x))
    ELSE IntOverflow(BMul(AlignedW(x, y)[1], AlignedW(x, y)[2]),
                     Promote(CondType(x, y)))

\* r = a * b
OpTimesW ==
    /\ HasMaxVal(max_wwid(a, b), max_fwid(a, b))
    /\ TypeForSize_(2 * (max_wwid(a, b) + max_fwid(a, b)), FALSE).bits # 0
    /\ \E r \in TimesW(a, b, SAT) :
          res' = Rec("*", a, b, {}, r, {}, TimesUndefined(a, b))
    /\ UNCHANGED <<SAT, a, b>>

\* d = a.to_double()
ToDoubleW ==
    /\ res' = Rec("to_double", a, NilW, {}, NilW, to_doubleW(a), FALSE)
    /\ UNCHANGED <<SAT, a, b>>

\* T y(d)  for the double d the last to_double() returned, T the type of
\* the object it was called on
CtorFromDoubleW ==
    /\ res.op = "to_double"
    /\ HasMaxVal(res.x.W, res.x.F)
    /\ ~CastUndefinedW(res.d, res.x, SAT)
    /\ res' = Rec("from_double", res.x, NilW, res.d,
                  [res.x EXCEPT !.val = float2fixedW(res.d, res.x, SAT)],
                  res.d, FALSE)
    /\ UNCHANGED <<SAT, a, b>>

WideNext ==
    \/ ToggleSAT
    \/ CtorFloatW
    \/ CtorFromFloatW
    \/ ReadBackW
    \/ OpPlusW
    \/ OpTimesW
    \/ ToDoubleW
    \/ CtorFromDoubleW

SpecWide == WideInit /\ [][WideNext]_vars

(***************************************************************************)
(* Signed objects of more than 32 bits: z is constructed from a float or a *)
(* double and converted to integers and to a bit string.  A raw value is   *)
(* the set of the bits of its two's complement pattern.                    *)
(***************************************************************************)

\* FixedPt<17,16,true> of the test, and a signed type whose fraction is
\* wider than an int.
SignedTypes == {[W |-> 17, F |-> 16], [W |-> 2, F |-> 40]}

\* val_t of the signed type of x.
ValTypeS(x) == TypeForSize_(x.W + x.F, TRUE)

\* max_val() of a signed type.
max_valS(x) == 0 .. x.W + x.F - 2

\* SAT && n > max_val()  for n of a floating type of p significant bits, to
\* which max_val() is converted.
ClampsS(n, x, sat, p) == sat /\ BLess(RoundTo(max_valS(x), p), n)

\* float2fixed(n) followed by the store into the W+F bits of val, the cast
\* to val_t being defined.
float2fixedS(n, x, sat, p) ==
    IF ClampsS(n, x, sat, p) THEN max_valS(x)
    ELSE Trunc(ScaledW(n, x.F), x.W + x.F)

\* x.val in an expression: the bit-field converted to val_t.
ValS(x) == Widen(x.val, [bits |-> x.W + x.F, signed |-> TRUE])

\* s >> k for a signed 64-bit s: the sign bit is shifted in.
AShr(s, k) ==
    BShr(s, k) \cup (IF (MaxBits - 1) \in s THEN MaxBits - k .. MaxBits - 1 ELSE {})

\* get_whole() and operator val_t(): val_t(val >> FRACWIDTH)
get_wholeS(x) == AShr(ValS(x), x.F)

\* operator int(): val >> FRACWIDTH converted to int.
operator_intS(x) == Widen(Trunc(AShr(ValS(x), x.F), CInt.bits), CInt)

\* make_mask(width): (1 << width) - 1 in int.  For width above 30 the
\* shift or the subtraction overflows the int: the builds yield the mask
\* of width modulo 32 bits, or the mask of all bits.
make_maskW(width) ==
    IF width < CInt.bits - 1 THEN {0 .. width - 1}
    ELSE {Widen(0 .. (width % CInt.bits) - 1, CInt), 0 .. MaxBits - 1}

\* get_frac(): make_mask(FRACWIDTH) & val
get_fracS(x) == {m \cap ValS(x) : m \in make_maskW(x.F)}

\* to_bitstring()
to_bitstringS(x) ==
    LET len    == x.W + x.F
        bitstr == [k \in 1 .. len |-> IF (len - k) \in x.val THEN "1" ELSE "0"]
    IN  SubSeq(bitstr, 1, x.W) \o <<".">> \o SubSeq(bitstr, x.W + 1, len)

\* T z;  of a signed type T
SignedInit ==
    /\ SAT = TRUE
    /\ \E t \in SignedTypes : a = [W |-> t.W, F |-> t.F, S |-> TRUE, val |-> {}]
    /\ b = a
    /\ res = NoRecW

\* z = T(n)  for a float (p = 24) or a double (p = 53) n whose conversion
\* to val_t is defined; n is 1.0, 2.5, 8589934591.25 (the test),
\* 4294967296.0 or 8796093022208.0.
CtorSigned ==
    /\ \E t \in SignedTypes,
          n \in {{0}, {1, -1}, (0 .. 32) \cup {-2}, {32}, {43}}, p \in {24, 53} :
          LET x == [W |-> t.W, F |-> t.F, S |-> TRUE, val |-> {}]
          IN  /\ RoundTo(n, p) = n
              /\ ~ClampsS(n, x, SAT, p) =>
                    \A i \in ScaledW(n, x.F) : i < ValTypeS(x).bits - 1
              /\ a' = [x EXCEPT !.val = float2fixedS(n, x, SAT, p)]
              /\ res' = Rec("float", NilW, NilW, n, a', {}, FALSE)
    /\ UNCHANGED <<SAT, b>>

\* The record of a conversion of z: it keeps the number z was constructed
\* from and the SAT of the construction.
ConvRec(op, d, ub) ==
    [Rec(op, a, NilW, res.n, NilW, d, ub) EXCEPT !.sat = res.sat]

\* i = int(z)
ToIntS ==
    /\ res.op # "init"
    /\ res' = ConvRec("int", operator_intS(a), FALSE)
    /\ UNCHANGED <<SAT, a, b>>

\* i = int64_t(z)
ToValTypeS ==
    /\ res.op # "init"
    /\ res' = ConvRec("val_t", get_wholeS(a), FALSE)
    /\ UNCHANGED <<SAT, a, b>>

\* i = z.get_whole()
GetWholeS ==
    /\ res.op # "init"
    /\ res' = ConvRec("get_whole", get_wholeS(a), FALSE)
    /\ UNCHANGED <<SAT, a, b>>

\* i = z.get_frac()
GetFracS ==
    /\ res.op # "init"
    /\ \E d \in get_fracS(a) :
          res' = ConvRec("get_frac", d, a.F >= CInt.bits - 1)
    /\ UNCHANGED <<SAT, a, b>>

\* s = z.to_bitstring()
ToBitstringS ==
    /\ res.op # "init"
    /\ res' = [ConvRec("to_bitstring", {}, FALSE) EXCEPT !.str = to_bitstringS(a)]
    /\ UNCHANGED <<SAT, a, b>>

SignedNext ==
    \/ ToggleSAT
    \/ CtorSigned
    \/ ToIntS
    \/ ToValTypeS
    \/ GetWholeS
    \/ GetFracS
    \/ ToBitstringS

SpecSigned == SignedInit /\ [][SignedNext]_vars

(***************************************************************************)
(* Division of unsigned objects of up to 64 bits: r = a / b for two        *)
(* objects of one type, and r converted to a bit string.                   *)
(***************************************************************************)

\* The integer of the four bits of s from bit lo up.
Nibble(s, lo) ==
    (IF lo \in s THEN 1 ELSE 0) + (IF (lo + 1) \in s THEN 2 ELSE 0)
        + (IF (lo + 2) \in s THEN 4 ELSE 0) + (IF (lo + 3) \in s THEN 8 ELSE 0)

\* The integer of the 24 bits of the float s, nonzero, from its leading
\* bit down.
Mantissa(s) ==
    LET lo == BMax(s) - 23
    IN  Nibble(s, lo) + 2^4 * Nibble(s, lo + 4) + 2^8 * Nibble(s, lo + 8)
            + 2^12 * Nibble(s, lo + 12) + 2^16 * Nibble(s, lo + 16)
            + 2^20 * Nibble(s, lo + 20)

\* The quotient ma / mb of two mantissas by long division, seven bits at
\* a time: bit -k has weight 2^-k, and bit -29 is set when a remainder is
\* left after 28 fraction bits.
QuotBits(ma, mb) ==
    LET q1 == (ma * 2^7) \div mb
        r1 == (ma * 2^7) % mb
        q2 == (r1 * 2^7) \div mb
        r2 == (r1 * 2^7) % mb
        q3 == (r2 * 2^7) \div mb
        r3 == (r2 * 2^7) % mb
        q4 == (r3 * 2^7) \div mb
        r4 == (r3 * 2^7) % mb
        q  == ((q1 * 2^7 + q2) * 2^7 + q3) * 2^7 + q4
    IN  {i - 28 : i \in {k \in 0 .. 29 : (q \div 2^k) % 2 = 1}}
            \cup (IF r4 # 0 THEN {-29} ELSE {})

\* float(s) / float(t) for t # 0: the quotient rounded to a float.
FloatDiv(s, t) ==
    IF s = {} THEN {}
    ELSE RoundF(BShl(QuotBits(Mantissa(RoundF(s)), Mantissa(RoundF(t))),
                     BMax(RoundF(s)) - BMax(RoundF(t))))

\* (1 << FWID) in int: the bit pattern of the result.  A shift by the
\* width of int or more is undefined: the builds yield 0 or shift by FWID
\* modulo 32.
OneShl(F) == IF F < CInt.bits THEN {{F}} ELSE {{}, {F % CInt.bits}}

\* The magnitude of q * (1 << FWID) for the int m, zero or a power of two.
ScaledQuot(q, m) == IF m = {} THEN {} ELSE {i \in BShl(q, BMax(m)) : i >= 0}

\* The conversion of q * m to int is undefined: the truncated value is not
\* one of an int.
IntUndefined(q, m) ==
    LET w == ScaledQuot(q, m)
    IN  IF (CInt.bits - 1) \in m THEN BLess({CInt.bits - 1}, w)
        ELSE \E i \in w : i >= CInt.bits - 1

\* int(q * m): truncated toward zero, and negated as an int when the int m
\* is negative.
IntOf(q, m) ==
    LET w == ScaledQuot(q, m)
    IN  IF (CInt.bits - 1) \in m
        THEN Trunc(BAdd((0 .. CInt.bits - 1) \ w, {0}), CInt.bits)
        ELSE w

\* operator/ for FixedPts of same width both unsigned, for y.val # 0: the
\* set of results int(...) has a value for.
DivSameW(x, y) ==
    {FixedPtRawW(x.W, x.F, IntOf(FloatDiv(x.val, y.val), m), CInt) :
        m \in {k \in OneShl(x.F) : ~IntUndefined(FloatDiv(x.val, y.val), k)}}

\* T a(v); T b(w);  T is FixedPt<5,3> of the test, a type whose fraction
\* has 30, 31 or more than 31 bits, or one whose whole part has more bits
\* than a float keeps; v and w are 0, 1, the raw of 1.0, a value of 25
\* significant bits where the type holds it, the largest power of two and
\* the largest raw value of the type.
DivInit ==
    /\ SAT = TRUE
    /\ \E t \in {[W |-> 5, F |-> 3], [W |-> 1, F |-> 30], [W |-> 1, F |-> 31],
                 [W |-> 2, F |-> 40], [W |-> 40, F |-> 2]} :
          LET raws == {{}, {0}, {t.F}, Trunc({0, 24}, t.W + t.F),
                       {t.W + t.F - 1}, 0 .. t.W + t.F - 1}
          IN  /\ \E v \in raws : a = FixedPtRawW(t.W, t.F, v, ValType(t))
              /\ \E w \in raws : b = FixedPtRawW(t.W, t.F, w, ValType(t))
    /\ res = NoRecW

\* r = a / b  for b.val # 0 and a quotient int(...) has a value for
OpDivW ==
    /\ b.val # {}
    /\ \E r \in DivSameW(a, b) :
          res' = Rec("/", a, b, {}, r, {}, a.F >= CInt.bits)
    /\ UNCHANGED <<SAT, a, b>>

\* s = r.to_bitstring()  for the quotient r
ToBitstringW ==
    /\ res.op = "/"
    /\ res' = [res EXCEPT !.op = "(a/b).to_bitstring",
                          !.str = to_bitstringS(res.out)]
    /\ UNCHANGED <<SAT, a, b>>

\* a = b
AssignW ==
    /\ a' = b
    /\ res' = Rec("assign", b, NilW, {}, a', {}, FALSE)
    /\ UNCHANGED <<SAT, b>>

DivNext ==
    \/ ToggleSAT
    \/ OpDivW
    \/ ToBitstringW
    \/ AssignW

SpecDiv == DivInit /\ [][DivNext]_vars

(***************************************************************************)
(* The properties.  Each states what the operation recorded in res must    *)
(* have produced, computed from the operands x and y by exact arithmetic   *)
(* on integers (or on the sets of exponents of the wide types), not by the *)
(* operators of the code.                                                  *)
(***************************************************************************)

\* The exact raw value of x aligned to the fraction width F.
ExactAlignedW(x, F) == BShl(x.val, F - x.F)

\* The exact aligned sum of x and y.
ExactSumW(x, y) ==
    BAdd(ExactAlignedW(x, Max(x.F, y.F)), ExactAlignedW(y, Max(x.F, y.F)))

\* The exact rescaled product floor(a' * b' / 2^F) of x and y.
ExactProductW(x, y) ==
    BShr(BMul(ExactAlignedW(x, Max(x.F, y.F)), ExactAlignedW(y, Max(x.F, y.F))),
         Max(x.F, y.F))

\* The largest raw value 2^T - 1 of the result type of x op y.
ExactMaxW(x, y) == 0 .. Max(x.W, y.W) + Max(x.F, y.F) - 1

\* The exact rescaled product floor(a' * b' / 2^F) of x and y as an integer.
ExactProduct(x, y) ==
    LET F == Max(x.F, y.F)
    IN  Shr((x.val * 2^(F - x.F)) * (y.val * 2^(F - y.F)), F)

\* The exact product fits in the signed range of the result type of x * y.
FitsSigned(x, y) ==
    LET T == Max(x.W, y.W) + Max(x.F, y.F)
    IN  -(2^(T - 1)) <= ExactProduct(x, y) /\ ExactProduct(x, y) <= 2^(T - 1) - 1

\* C1: after any sequence of operations, with SAT on or off, the raw value
\* of every FixedPt (the objects a and b and the value the last operation
\* returned) fits in the W + F bits of its type: for the unsigned types of
\* the wide program, 0 <= raw <= 2^T - 1.
C1_RawFitsTotalWidth ==
    \A v \in {a, b, res.out} : \A i \in v.val : i < v.W + v.F

\* C2: constructing a value of the same type from the double to_double()
\* returned for x yields the raw value of x, with SAT on and with SAT off.
C2_RoundTrip ==
    res.op = "from_double" => res.out.val = res.x.val

\* C3: for unsigned operands with SAT on, operator+ (same-width and
\* mixed-width) returns the maximum raw value 2^T - 1 of the result type
\* exactly when the exact aligned sum exceeds it, and the exact aligned sum
\* otherwise.
C3_SatAddClampsExactly ==
    (res.op = "+" /\ res.sat) =>
        res.out.val = IF BLess(ExactMaxW(res.x, res.y), ExactSumW(res.x, res.y))
                      THEN ExactMaxW(res.x, res.y)
                      ELSE ExactSumW(res.x, res.y)

\* C4: for unsigned operands with SAT on, operator* (same-width and
\* mixed-width) returns floor(a' * b' / 2^F) when that is at most 2^T - 1
\* and the maximum raw value 2^T - 1 otherwise.
C4_SatMulUnsigned ==
    (res.op = "*" /\ res.sat) =>
        res.out.val = IF BLess(ExactMaxW(res.x, res.y), ExactProductW(res.x, res.y))
                      THEN ExactMaxW(res.x, res.y)
                      ELSE ExactProductW(res.x, res.y)

\* C5: for signed operands with SAT on, a multiplication that has a result
\* returns the maximum raw value 2^(T-1) - 1 of the result type whenever the
\* exact rescaled product does not fit in the signed range of the result
\* type, whatever the signs of the operands.
C5_SatMulSignedClamps ==
    (res.op = "*" /\ res.sat /\ res.x.S /\ res.out # Nil
        /\ ~FitsSigned(res.x, res.y)) =>
        res.out.val = 2^(Max(res.x.W, res.y.W) + Max(res.x.F, res.y.F) - 1) - 1

\* C6: for signed operands, SAT on or off, whenever the exact rescaled
\* product fits in the signed range of the result type, operator* returns
\* exactly that raw value in the result type; FixedPt<5,4,true>(7.0) *
\* FixedPt<5,4,true>(2.0) is 14.0, raw 224.
C6_SignedMulExact ==
    (res.op = "*" /\ res.x.S /\ FitsSigned(res.x, res.y)) =>
        res.out = [W |-> Max(res.x.W, res.y.W), F |-> Max(res.x.F, res.y.F),
                   S |-> TRUE, val |-> ExactProduct(res.x, res.y)]

\* C7: with SAT on, constructing a FixedPt from a float n (res.n is
\* n * 2^DScale) above the largest real value of the type, max raw / 2^F,
\* sets the raw value to the largest raw value of the type.
C7_FloatCtorClamps ==
    LET o   == res.out
        max == IF o.S THEN 2^(o.W + o.F - 1) - 1 ELSE 2^(o.W + o.F) - 1
    IN  (res.op = "float" /\ res.sat /\ res.n * 2^o.F > max * 2^DScale) =>
            o.val = max

\* C8: with SAT off, unsigned operator+ returns the exact aligned sum
\* modulo 2^T of the result type in every case where SAT on returns the
\* clamped maximum.
C8_UnsatAddWraps ==
    (res.op = "+" /\ ~res.sat
        /\ PlusW(res.x, res.y, TRUE).val = ExactMaxW(res.x, res.y)) =>
        res.out.val = Trunc(ExactSumW(res.x, res.y),
                            Max(res.x.W, res.y.W) + Max(res.x.F, res.y.F))

\* C9: the result of every mixed-width operator +, -, * and / on operands
\* of widths (W1,F1) and (W2,F2) has wwidth() max(W1,W2) and fracwidth()
\* max(F1,F2), whatever the order and the values of the operands.
C9_MixedResultWidths ==
    (res.op \in {"+", "-", "*", "/"} /\ ~SameType(res.x, res.y)
        /\ res.out # Nil) =>
        /\ wwidth(res.out) = Max(res.x.W, res.y.W)
        /\ fracwidth(res.out) = Max(res.x.F, res.y.F)

\* A mixed-width product whose width comes from the first operand and whose
\* fraction width comes from the second.
C9_Witness ==
    /\ res.op = "*"
    /\ res.x.W > res.y.W
    /\ res.x.F < res.y.F
    /\ res.out # Nil
    /\ wwidth(res.out) = res.x.W
    /\ fracwidth(res.out) = res.y.F

\* C10: for every total width N in 1..64 and each signedness, the storage
\* type is the smallest of 8, 16, 32 and 64 bits that holds N bits, signed
\* iff Signed, and the size of the FixedPt is that many bytes.
C10_StorageSize ==
    (res.op = "sizeof" /\ res.n \in 1 .. MaxBits) =>
        /\ res.vt.bits \in {8, 16, 32, 64}
        /\ res.vt.bits >= res.n
        /\ \A k \in {8, 16, 32, 64} : k >= res.n => res.vt.bits <= k
        /\ res.vt.signed = res.out.S
        /\ res.d * 8 = res.vt.bits

C12_BitstringLayout ==
    res.op = "to_bitstring" =>
        LET W == res.x.W
            T == res.x.W + res.x.F
            digits == SubSeq(res.str, 1, W) \o SubSeq(res.str, W + 2, T + 1)
        IN  /\ Len(res.str) = T + 1
            /\ res.str[W + 1] = "."
            /\ \A k \in 1 .. T :
                  digits[k] = IF ((res.x.val % 2^T) \div 2^(T - k)) % 2 = 1
                              THEN "1" ELSE "0"

\* The bit string of a negative value with fraction bits, W and F differing.
C12_Witness ==
    /\ res.op = "to_bitstring"
    /\ res.x.val < 0
    /\ res.x.F > 0
    /\ res.x.W # res.x.F
    /\ res.str[res.x.W + 1] = "."
    /\ res.str[1] = "1"

\* C13: every operator +, -, *, / and the member add() leave the raw value
\* of both operands unchanged; add_ changes only the object it is called
\* on and leaves the distinct object b unchanged.
C13_OperandsUnchanged ==
    [][/\ res'.op \in {"+", "-", "*", "/", "add", "(a-b)+b", "b+(a-b)"} =>
             a' = a /\ b' = b
       /\ res'.op = "add_" =>
             /\ b' = b
             /\ a'.W = a.W /\ a'.F = a.F /\ a'.S = a.S]_vars

\* add_ has changed the raw value of a and left its argument b as it was.
C13_Witness ==
    /\ res.op = "add_"
    /\ res.y = b
    /\ res.x # b
    /\ a = res.out
    /\ a.val # res.x.val

\* C14: add_ uses the saturation policy of operator+: after a.add_(b) the
\* raw value of a is that of a + b computed from the original a and b, for
\* unsigned and signed types, SAT on and off.
C14_AddInPlaceMatchesPlus ==
    res.op = "add_" => res.out.val = Plus(res.x, res.y, res.sat).val

\* The exact result of an unsigned same-type operation under SAT = sat: the
\* exact value v, clamped to the largest raw value when sat, else modulo 2^T.
ExpectedUnsigned(v, x, sat) ==
    LET T == x.W + x.F
    IN  IF sat /\ v > 2^T - 1 THEN 2^T - 1 ELSE v % 2^T

\* C15: SAT is one global boolean, initially true; a step that toggles it
\* changes no value computed earlier, and every call of +, add, add_ and *
\* on unsigned operands of one type and every float construction of an
\* unsigned object computes its result with the value SAT has at the call.
C15_SatReadAtCallTime ==
    /\ SAT = TRUE
    /\ [][/\ SAT' # SAT => (a' = a /\ b' = b /\ res' = res)
          /\ (SAT' = SAT /\ ~res'.x.S /\ SameType(res'.x, res'.y)
                /\ res'.op \in {"+", "add", "add_"}) =>
                res'.out.val =
                    ExpectedUnsigned(res'.x.val + res'.y.val, res'.x, SAT)
          /\ (SAT' = SAT /\ ~res'.x.S /\ SameType(res'.x, res'.y)
                /\ res'.op = "*") =>
                res'.out.val =
                    ExpectedUnsigned((res'.x.val * res'.y.val) \div 2^(res'.x.F),
                                     res'.x, SAT)
          /\ (SAT' = SAT /\ res'.op = "float" /\ ~res'.out.S /\ ~res'.ub
                /\ ~(SAT /\ res'.n > (2^(a.W + a.F) - 1) * 2^DScale)) =>
                a'.val = ((2 * res'.n * 2^(a.F) + 2^DScale) \div (2 * 2^DScale))
                             % 2^(a.W + a.F)
          /\ (SAT' = SAT /\ res'.op = "float" /\ ~res'.out.S
                /\ SAT /\ res'.n > (2^(a.W + a.F) - 1) * 2^DScale) =>
                a'.val = 2^(a.W + a.F) - 1]_vars

\* SAT is off, and the sum returned while SAT was on is still the clamped
\* maximum.
C15_Witness ==
    /\ ~SAT
    /\ res.op = "+"
    /\ res.sat
    /\ ~res.x.S
    /\ res.x.val + res.y.val > 2^(res.x.W + res.x.F) - 1
    /\ res.out.val = 2^(res.x.W + res.x.F) - 1

\* C16: a FixedPt type whose total width is 0 or above 64 has no storage
\* type and cannot be instantiated; every total width in 1..64 is accepted.
C16_WidthAccepted ==
    res.op = "sizeof" =>
        /\ (res.n = 0 \/ res.n > MaxBits) => (res.vt.bits = 0 /\ res.d = 0)
        /\ res.n \in 1 .. MaxBits => (res.vt.bits # 0 /\ res.d > 0)

C20_DivRoundsToNearest ==
    (res.op = "/" /\ SameType(res.x, res.y) /\ res.y.val # 0 /\ ~res.ub) =>
        LET num == res.x.val * 2^(res.x.F)
            den == res.y.val
            q   == IF den > 0 THEN (2 * num + den) \div (2 * den)
                   ELSE (2 * (-num) - den) \div (2 * (-den))
            m   == 2^(res.x.W + res.x.F)
        IN  (res.out.val - q) % m = 0

\* C17: for an unsigned type and a number n that is a multiple of 2^-F with
\* 0 <= n <= (2^T - 1) / 2^F, constructing from n with SAT on and converting
\* back with to_f(), operator float or to_double() returns exactly n.
C17_FloatRoundTrip ==
    (/\ res.op \in {"T(n).to_f", "float(T(n))", "T(n).to_double"}
     /\ res.sat
     /\ ~res.x.S
     /\ \A i \in res.n : i >= -(res.x.F) /\ i < res.x.W) =>
        res.d = res.n

\* C19: with SAT on, a signed object constructed from a number n greater
\* than max_val() has the raw value 2^(T-1) - 1; the conversions to an
\* integer and get_whole() then return 2^(W-1) - 1, get_frac() returns
\* 2^F - 1, and the bit string is "0" followed by ones.
C19_SignedCtorSaturates ==
    LET x == IF res.op = "float" THEN res.out ELSE res.x
        T == x.W + x.F
    IN  (res.op # "init" /\ res.sat /\ x.S /\ BLess(max_valS(x), res.n)) =>
            /\ res.op = "float" => x.val = 0 .. T - 2
            /\ res.op \in {"int", "val_t", "get_whole"} => res.d = 0 .. x.W - 2
            /\ res.op = "get_frac" => res.d = 0 .. x.F - 1
            /\ res.op = "to_bitstring" =>
                  res.str = [k \in 1 .. T + 1 |->
                                IF k = 1 THEN "0"
                                ELSE IF k = x.W + 1 THEN "." ELSE "1"]

\* C21: for an unsigned type with W >= 1 and a nonzero raw value x, x / x
\* has the raw value 2^F, the raw value of 1.0: its bit string is zeros, a
\* one, "." and F zeros.
C21_SelfDivisionIsOne ==
    LET x == res.x
        T == x.W + x.F
    IN  (res.op \in {"/", "(a/b).to_bitstring"} /\ ~x.S /\ x.W >= 1
           /\ x.val = res.y.val /\ x.val # {}) =>
            /\ res.out.val = {x.F}
            /\ res.op = "(a/b).to_bitstring" =>
                  res.str = [k \in 1 .. T + 1 |->
                                IF k = x.W THEN "1"
                                ELSE IF k = x.W + 1 THEN "." ELSE "0"]

\* The raw value of x aligned to the larger fraction width of x and y.
AlignedTo(x, y) == x.val * 2^(max_fwid(x, y) - x.F)

\* C22: in mixed-width subtraction and division the operand of the smaller
\* fraction width is the one shifted left, also when the raw values are
\* equal, and the order of the operands is kept: a - b has the raw value
\* (a.raw * 2^(Fmax-AF) - b.raw * 2^(Fmax-BF)) mod 2^T, and a / b is
\* computed from the same two aligned values.
C22_MixedAlignment ==
    LET x == res.x
        y == res.y
        T == max_wwid(x, y) + max_fwid(x, y)
    IN  (res.op \in {"-", "/"} /\ ~SameType(x, y) /\ ~res.ub) =>
            /\ res.op = "-" =>
                  res.out.val = (AlignedTo(x, y) - AlignedTo(y, x)) % 2^T
            /\ res.op = "/" =>
                  res.out.val =
                      TruncQuot(AlignedTo(x, y), AlignedTo(y, x), max_fwid(x, y)) % 2^T

\* C23: subtraction and division do not read SAT: the same operands give
\* the same raw value with SAT on and with SAT off, and a result out of
\* range is stored modulo 2^T, never clamped (unsigned a - b with
\* a.raw < b.raw is a.raw - b.raw + 2^T).
C23_NoSaturation ==
    [][LET x == res'.x
           y == res'.y
           T == x.W + x.F
       IN  /\ (/\ res'.op \in {"-", "/"} /\ ~res'.ub
               /\ res.op = res'.op /\ res.x = x /\ res.y = y /\ ~res.ub
               /\ res.sat # res'.sat) =>
                  res'.out = res.out
           /\ (res'.op = "-" /\ SameType(x, y)) =>
                  /\ (res'.out.val - (x.val - y.val)) % 2^T = 0
                  /\ (~x.S /\ x.val < y.val) =>
                        res'.out.val = x.val - y.val + 2^T
           /\ (res'.op = "/" /\ SameType(x, y) /\ ~res'.ub) =>
                  (res'.out.val - TruncQuot(x.val, y.val, x.F)) % 2^T = 0]_vars

\* With SAT on, an unsigned a - b with a.raw < b.raw has wrapped.
C23_Witness ==
    /\ res.op = "-"
    /\ res.sat
    /\ SameType(res.x, res.y)
    /\ ~res.x.S
    /\ res.x.val < res.y.val
    /\ res.out.val = res.x.val - res.y.val + 2^(res.x.W + res.x.F)

\* C24: for a signed multiplication, same-width or mixed-width, with SAT
\* on or off, whose operands are both positive or both negative, the sign
\* bit of the result is clear: the raw value is never negative.
C24_SameSignProductNonNegative ==
    (/\ res.op = "*"
     /\ res.x.S
     /\ res.out # Nil
     /\ (res.x.val > 0 /\ res.y.val > 0) \/ (res.x.val < 0 /\ res.y.val < 0)) =>
        res.out.val >= 0

\* Two negative operands whose product does not fit the result type, with
\* SAT off: the narrowed product had its sign bit set, and the result is
\* not negative.
C24_Witness ==
    /\ res.op = "*"
    /\ res.x.S
    /\ ~res.sat
    /\ res.out # Nil
    /\ res.x.val < 0 /\ res.y.val < 0
    /\ ~FitsSigned(res.x, res.y)
    /\ res.out.val >= 0

\* C25: with SAT on, an add_ on an unsigned object leaves its raw value at
\* least what it was, so a raw value equal to max_val() stays there under
\* add_ with any operand; and while SAT stays on, repeated a.add_(a) from a
\* nonzero raw value reaches max_val() and stays there.
C25_AddInPlaceReachesMax ==
    /\ [][(res'.op = "add_" /\ res'.sat /\ ~a.S) =>
             /\ a'.val >= a.val
             /\ a.val = max_val(a.W, a.F, a.S) => a'.val = a.val]_vars
    /\ []SAT => ((~a.S /\ a.val # 0) ~> [](a.val = max_val(a.W, a.F, a.S)))

\* An add_ with SAT on that found a at max_val(), added a nonzero value
\* and left a at max_val().
C25_Witness ==
    /\ res.op = "add_"
    /\ res.sat
    /\ ~a.S
    /\ res.x.val = max_val(a.W, a.F, a.S)
    /\ res.y.val > 0
    /\ a.val = max_val(a.W, a.F, a.S)

====
